---- MODULE Spec2Model ----
(***************************************************************************)
(* A model of scraper.py: the two building scrapers (Avalon, Equity), the  *)
(* BUILDINGS registry and main().                                          *)
(*                                                                         *)
(* JSON objects are records whose DOMAIN is the set of keys present, so a  *)
(* missing key is a record without that field and d['k'] raises KeyError   *)
(* exactly when "k" \notin DOMAIN d.  An optional argument (argparse's     *)
(* None) is the empty set, a supplied value v is {v}.  A quotient a / b    *)
(* of Python's true division is kept exact as [num |-> a, den |-> b].      *)
(***************************************************************************)
EXTENDS Integers, Sequences, FiniteSets

\* ------------------------------------------------------------------ bounds
\* The largest number of apartment entries in one upstream response.
MaxEntries == 2

\* The values upstream fields and command-line arguments are drawn from.
Units == {1, 2}
Rents == {2, 4}
Sizes == {1, 2}
Beds == {1, 2}
NameSets == {{}, {"la terraza"}, {"La Terraza", "Nowhere"}}
MaxBedsArgs == {{}, {1}}

VARIABLES
    args,        \* the parsed command line (argparse namespace)
    pc,          \* main's position: "start", "check", "loop", "fetch",
                 \* "emit", "end"
    exit,        \* "running", "ok" (status 0), "error" (sys.exit(message)),
                 \* "exception" (an unhandled exception's traceback)
    i,           \* index into BUILDINGS of the loop's current building
    clock,       \* number of time.time() reads so far (a logical clock)
    timestamp,   \* main's timestamp variable, a set: {} while unassigned
    by_size,     \* main's by_size dict: size -> sequence of rents
    yielded,     \* what building.apartments yielded, in yield order
    apts,        \* sorted(building.apartments, key=unit) of this iteration
    out,         \* stdout written since the current iteration began
    calls,       \* number of requests.get calls issued so far
    processed,   \* names of the buildings whose iteration was entered
    failed,      \* names of the buildings whose fetch raised
    adapter,     \* adapter run: the scraper class under test, or "none"
    response,    \* adapter run: the upstream response handed to it
    result       \* adapter run: what the apartments generator did with it

vars == <<args, pc, exit, i, clock, timestamp, by_size, yielded, apts, out,
          calls, processed, failed, adapter, response, result>>

\* ------------------------------------------------------------- Apartment
Apartment(unit, rent, size, beds) ==
    [unit |-> unit, rent |-> rent, size |-> size, beds |-> beds]

\* Apartment.per_sq_ft: rent / size, which raises ZeroDivisionError at size 0.
PerSqFtDefined(a) == a.size # 0
per_sq_ft(a) == [num |-> a.rent, den |-> a.size]

\* Apartment.__str__: the text line of one apartment (it reads per_sq_ft).
ApartmentStr(a) ==
    [kind |-> "unit", unit |-> a.unit, rent |-> a.rent, size |-> a.size,
     beds |-> a.beds, per_sq_ft |-> per_sq_ft(a)]

\* --------------------------------------------------------------- registry
BUILDINGS == <<
    [name |-> "Avalon Mission Bay", class |-> "Avalon", key |-> "CA067"],
    [name |-> "Avalon San Bruno", class |-> "Avalon", key |-> "CA583"],
    [name |-> "La Terraza", class |-> "Equity",
     key |-> "san-francisco-bay/colma/la-terrazza-apartments"],
    [name |-> "South City Station", class |-> "Equity",
     key |-> "san-francisco-bay/south-san-francisco/south-city-station-apartments"] >>

\* Equity._url.
EquityUrl(b) == [host |-> "www.equityapartments.com", path |-> b.key]

\* ------------------------------------------------------ generator results
\* The state of an apartments generator: the apartments yielded so far, the
\* exception that ended it ("none" while it runs or when it is exhausted) and
\* what it printed.
NoneYet == [apts |-> <<>>, err |-> "none", printed |-> <<>>]
Raise(r, e) == [r EXCEPT !.err = e]
Yield(r, a) == [r EXCEPT !.apts = Append(@, a)]

\* int(s[0]) of a type code given as its sequence of characters.
DigitValue ==
    [c \in {"0", "1", "2", "3", "4", "5", "6", "7", "8", "9"} |->
        CASE c = "0" -> 0 [] c = "1" -> 1 [] c = "2" -> 2 [] c = "3" -> 3
          [] c = "4" -> 4 [] c = "5" -> 5 [] c = "6" -> 6 [] c = "7" -> 7
          [] c = "8" -> 8 [] c = "9" -> 9]

\* ----------------------------------------------------------------- Avalon
RECURSIVE AvalonApartmentsLoop(_, _, _, _)
AvalonApartmentsLoop(as, size, beds, r) ==
    IF as = <<>> \/ r.err # "none" THEN r
    ELSE LET a == Head(as) IN
         IF \/ "apartmentNumber" \notin DOMAIN a
            \/ "pricing" \notin DOMAIN a
            \/ "effectiveRent" \notin DOMAIN a.pricing
         THEN Raise(r, "KeyError")
         ELSE AvalonApartmentsLoop(Tail(as), size, beds,
                  Yield(r, Apartment(a.apartmentNumber,
                                     a.pricing.effectiveRent, size, beds)))

RECURSIVE AvalonPackagesLoop(_, _, _, _)
AvalonPackagesLoop(ps, size, beds, r) ==
    IF ps = <<>> \/ r.err # "none" THEN r
    ELSE LET p == Head(ps) IN
         IF "apartments" \notin DOMAIN p THEN Raise(r, "KeyError")
         ELSE AvalonPackagesLoop(Tail(ps), size, beds,
                  AvalonApartmentsLoop(p.apartments, size, beds, r))

RECURSIVE AvalonPlansLoop(_, _, _)
AvalonPlansLoop(fps, beds, r) ==
    IF fps = <<>> \/ r.err # "none" THEN r
    ELSE LET fp == Head(fps) IN
         IF \/ "estimatedSize" \notin DOMAIN fp
            \/ "finishPackages" \notin DOMAIN fp
         THEN Raise(r, "KeyError")
         ELSE AvalonPlansLoop(Tail(fps), beds,
                  AvalonPackagesLoop(fp.finishPackages, fp.estimatedSize,
                                     beds, r))

RECURSIVE AvalonTypesLoop(_, _)
AvalonTypesLoop(ts, r) ==
    IF ts = <<>> \/ r.err # "none" THEN r
    ELSE LET t == Head(ts) IN
         IF "floorPlanTypeCode" \notin DOMAIN t THEN Raise(r, "KeyError")
         ELSE IF t.floorPlanTypeCode = <<>> THEN Raise(r, "IndexError")
         ELSE IF t.floorPlanTypeCode[1] \notin DOMAIN DigitValue
              THEN Raise(r, "ValueError")
         ELSE IF "availableFloorPlans" \notin DOMAIN t
              THEN Raise(r, "KeyError")
         ELSE AvalonTypesLoop(Tail(ts),
                  AvalonPlansLoop(t.availableFloorPlans,
                                  DigitValue[t.floorPlanTypeCode[1]], r))

\* Avalon.apartments, run to its end on the response requests.get returned.
AvalonApartments(resp) ==
    IF resp.transport # "ok" THEN Raise(NoneYet, "ConnectionError")
    ELSE IF ~resp.body.isJson THEN Raise(NoneYet, "JSONDecodeError")
    ELSE LET info == resp.body.value IN
         IF \/ "results" \notin DOMAIN info
            \/ "availableFloorPlanTypes" \notin DOMAIN info.results
         THEN Raise(NoneYet, "KeyError")
         ELSE AvalonTypesLoop(info.results.availableFloorPlanTypes, NoneYet)

\* ----------------------------------------------------------------- Equity
\* A line of the page is the parts _INFO_PATTERN looks at: the characters
\* before the identifier, the identifier, the attribute assigned to, the
\* {...} fragment that follows " = " (absent when none follows) and whether
\* another "}" comes later on the line, which the greedy \{.*\} also takes.
IdentChars ==
    {"a", "b", "c", "d", "e", "f", "g", "h", "i", "j", "k", "l", "m", "n",
     "o", "p", "q", "r", "s", "t", "u", "v", "w", "x", "y", "z",
     "0", "1", "2", "3", "4", "5"}

\* _INFO_PATTERN.search(line) is a match.
InfoPatternMatches(line) ==
    /\ \A k \in DOMAIN line.lead : line.lead[k] = " "
    /\ line.ident # <<>>
    /\ \A k \in DOMAIN line.ident : line.ident[k] \in IdentChars
    /\ line.attr = "unitAvailability"
    /\ "fragment" \in DOMAIN line

\* json.loads(match.group('info')) succeeds.
JsonLoads(line) == line.fragment.wellFormed /\ ~line.braceAfter

\* Index of the first line of the page the pattern matches, 0 when none does.
RECURSIVE FirstMatchFrom(_, _)
FirstMatchFrom(lines, k) ==
    IF k > Len(lines) THEN 0
    ELSE IF InfoPatternMatches(lines[k]) THEN k
    ELSE FirstMatchFrom(lines, k + 1)

\* A slip: the scan keeps going and the last matching line wins.
LastMatch(lines) ==
    IF \E k \in DOMAIN lines : InfoPatternMatches(lines[k])
    THEN CHOOSE k \in DOMAIN lines :
            /\ InfoPatternMatches(lines[k])
            /\ \A j \in DOMAIN lines : InfoPatternMatches(lines[j]) => j <= k
    ELSE 0

FirstMatch(lines) == FirstMatchFrom(lines, 1)

\* Equity._info: [err, value (a set: {} is None), printed].
EquityInfo(resp, url) ==
    IF resp.transport # "ok"
    THEN [err |-> "ConnectionError", value |-> {}, printed |-> <<>>]
    ELSE LET k == FirstMatch(resp.lines) IN
         IF k = 0
         THEN [err |-> "none", value |-> {},
               printed |-> <<[kind |-> "unable", url |-> url]>>]
         ELSE IF ~JsonLoads(resp.lines[k])
         THEN [err |-> "JSONDecodeError", value |-> {}, printed |-> <<>>]
         ELSE [err |-> "none", value |-> {resp.lines[k].fragment.value},
               printed |-> <<>>]

RECURSIVE EquityUnitsLoop(_, _, _)
EquityUnitsLoop(us, bt, r) ==
    IF us = <<>> \/ r.err # "none" THEN r
    ELSE LET u == Head(us) IN
         IF \/ "UnitId" \notin DOMAIN u
            \/ "BestTerm" \notin DOMAIN u
            \/ "Price" \notin DOMAIN u.BestTerm
            \/ "SqFt" \notin DOMAIN u
            \/ "BedroomCount" \notin DOMAIN bt
         THEN Raise(r, "KeyError")
         ELSE EquityUnitsLoop(Tail(us), bt,
                  Yield(r, Apartment(u.UnitId, u.BestTerm.Price, u.SqFt,
                                     bt.BedroomCount)))

RECURSIVE EquityTypesLoop(_, _)
EquityTypesLoop(bts, r) ==
    IF bts = <<>> \/ r.err # "none" THEN r
    ELSE LET bt == Head(bts) IN
         IF "AvailableUnits" \notin DOMAIN bt THEN Raise(r, "KeyError")
         ELSE EquityTypesLoop(Tail(bts),
                  EquityUnitsLoop(bt.AvailableUnits, bt, r))

\* Equity.apartments, run to its end on the response requests.get returned.
EquityApartments(resp, url) ==
    LET got == EquityInfo(resp, url)
        r0 == [NoneYet EXCEPT !.printed = got.printed]
    IN  IF got.err # "none" THEN Raise(r0, got.err)
        ELSE IF got.value = {} THEN Raise(r0, "TypeError")
        ELSE LET info == CHOOSE v \in got.value : TRUE IN
             IF "BedroomTypes" \notin DOMAIN info THEN Raise(r0, "KeyError")
             ELSE EquityTypesLoop(info.BedroomTypes, r0)

\* ------------------------------------------------------- upstream inputs
\* An upstream entry, flat: the four values of one apartment and which
\* required field, if any, the feed leaves out for it.
ValidEntries ==
    [beds : Beds, size : Sizes, unit : Units, rent : Rents, defect : {"none"}]
DefectEntries ==
    [beds : {1}, size : {1}, unit : {1}, rent : {2},
     defect : {"no_unit", "no_rent", "no_size", "no_beds"}]
\* Entries the feed gives a size of 0: every field is there.
ZeroSizeEntries ==
    [beds : Beds, size : {0}, unit : {1}, rent : {2}, defect : {"none"}]
Entries == ValidEntries \cup ZeroSizeEntries

SeqsUpTo(S, n) == UNION {[1..k -> S] : k \in 0..n}

\* A feed with one entry that lacks a field, alone or among complete
\* entries: before it, after it, or both.
SampleEntry == [beds |-> 2, size |-> 2, unit |-> 2, rent |-> 4, defect |-> "none"]
DefectSeqs ==
    {b \o <<d>> \o a :
        d \in DefectEntries,
        b \in {<<>>, <<SampleEntry>>}, a \in {<<>>, <<SampleEntry>>}}

EntrySeqs == SeqsUpTo(Entries, MaxEntries) \cup DefectSeqs

DigitChar(b) == CHOOSE c \in DOMAIN DigitValue : DigitValue[c] = b

SameType(e, f) ==
    e.beds = f.beds /\ ((e.defect = "no_beds") <=> (f.defect = "no_beds"))
SamePlan(e, f) ==
    /\ SameType(e, f)
    /\ e.size = f.size /\ ((e.defect = "no_size") <=> (f.defect = "no_size"))

\* The JSON the Avalon API serves for these entries.
AvalonApartmentJson(e) ==
    CASE e.defect = "no_unit" -> [pricing |-> [effectiveRent |-> e.rent]]
      [] e.defect = "no_rent" ->
            [apartmentNumber |-> e.unit, pricing |-> [amenitizedRent |-> e.rent]]
      [] OTHER ->
            [apartmentNumber |-> e.unit, pricing |-> [effectiveRent |-> e.rent]]

AvalonPlanJson(e, as) ==
    IF e.defect = "no_size"
    THEN [finishPackages |-> <<[apartments |-> as]>>]
    ELSE [estimatedSize |-> e.size, finishPackages |-> <<[apartments |-> as]>>]

AvalonTypeJson(e, fps) ==
    [floorPlanTypeCode |->
        IF e.defect = "no_beds" THEN <<"S", "T", "U">>
        ELSE <<DigitChar(e.beds), "B", "D">>,
     availableFloorPlans |-> fps]

\* One floor-plan type, plan and finish package per entry.
AvalonChain(es) ==
    [k \in 1..Len(es) |->
        AvalonTypeJson(es[k],
            <<AvalonPlanJson(es[k], <<AvalonApartmentJson(es[k])>>)>>)]

\* Consecutive entries of one type share the type, of one size the plan.
RECURSIVE AvalonMerged(_)
AvalonMerged(es) ==
    IF es = <<>> THEN <<>>
    ELSE LET e == Head(es)
             rest == AvalonMerged(Tail(es))
             a == AvalonApartmentJson(e)
         IN  IF Len(es) > 1 /\ SamePlan(e, es[2])
             THEN <<[rest[1] EXCEPT
                       !.availableFloorPlans[1].finishPackages[1].apartments =
                           <<a>> \o @]>> \o Tail(rest)
             ELSE IF Len(es) > 1 /\ SameType(e, es[2])
             THEN <<[rest[1] EXCEPT
                       !.availableFloorPlans =
                           <<AvalonPlanJson(e, <<a>>)>> \o @]>> \o Tail(rest)
             ELSE <<AvalonTypeJson(e, <<AvalonPlanJson(e, <<a>>)>>)>> \o rest

AvalonOk(ts) ==
    [transport |-> "ok",
     body |-> [isJson |-> TRUE,
               value |-> [results |-> [availableFloorPlanTypes |-> ts]]]]

\* What requests.get can hand Avalon.apartments.
AvalonResponses ==
    {[transport |-> "error"],
     [transport |-> "ok", body |-> [isJson |-> FALSE]],
     [transport |-> "ok",
      body |-> [isJson |-> TRUE, value |-> [message |-> "not found"]]]}
    \cup {AvalonOk(AvalonChain(es)) : es \in EntrySeqs}
    \cup {AvalonOk(AvalonMerged(es)) : es \in EntrySeqs}

\* The JSON an Equity page embeds for these entries.
EquityUnitJson(e) ==
    CASE e.defect = "no_unit" ->
            [SqFt |-> e.size, BestTerm |-> [Price |-> e.rent]]
      [] e.defect = "no_rent" ->
            [UnitId |-> e.unit, SqFt |-> e.size, BestTerm |-> [Length |-> 12]]
      [] e.defect = "no_size" ->
            [UnitId |-> e.unit, BestTerm |-> [Price |-> e.rent]]
      [] OTHER ->
            [UnitId |-> e.unit, SqFt |-> e.size, BestTerm |-> [Price |-> e.rent]]

EquityTypeJson(e, us) ==
    IF e.defect = "no_beds" THEN [AvailableUnits |-> us]
    ELSE [BedroomCount |-> e.beds, AvailableUnits |-> us]

EquityChain(es) ==
    [k \in 1..Len(es) |-> EquityTypeJson(es[k], <<EquityUnitJson(es[k])>>)]

RECURSIVE EquityMerged(_)
EquityMerged(es) ==
    IF es = <<>> THEN <<>>
    ELSE LET e == Head(es)
             rest == EquityMerged(Tail(es))
         IN  IF Len(es) > 1 /\ SameType(e, es[2])
             THEN <<[rest[1] EXCEPT
                       !.AvailableUnits = <<EquityUnitJson(e)>> \o @]>>
                  \o Tail(rest)
             ELSE <<EquityTypeJson(e, <<EquityUnitJson(e)>>)>> \o rest

EquityJsons(ess) ==
    {[BedroomTypes |-> EquityChain(es)] : es \in ess}
    \cup {[BedroomTypes |-> EquityMerged(es)] : es \in ess}

\* Lines of an Equity page.
InfoLine(json) ==
    [lead |-> <<" ", " ">>, ident |-> <<"e", "a", "5">>,
     attr |-> "unitAvailability",
     fragment |-> [wellFormed |-> TRUE, value |-> json], braceAfter |-> FALSE]
DecoyJson ==
    [BedroomTypes |-> <<[BedroomCount |-> 2, AvailableUnits |->
        <<[UnitId |-> 2, SqFt |-> 2, BestTerm |-> [Price |-> 4]]>>]>>]
DecoyLine == InfoLine(DecoyJson)
HtmlLine ==
    [lead |-> <<"<">>, ident |-> <<"d", "i", "v">>, attr |-> "",
     braceAfter |-> FALSE]
UpperIdentLine == [DecoyLine EXCEPT !.ident = <<"E", "A">>]
Digit6Line == [DecoyLine EXCEPT !.ident = <<"e", "a", "6">>]
NoIdentLine == [DecoyLine EXCEPT !.ident = <<>>]
OtherAttrLine == [DecoyLine EXCEPT !.attr = "unitDetails"]
LeadTextLine == [DecoyLine EXCEPT !.lead = <<" ", "v", "a", "r", " ">>]
MalformedLine == [DecoyLine EXCEPT !.fragment = [wellFormed |-> FALSE]]
BraceAfterLine == [DecoyLine EXCEPT !.braceAfter = TRUE]
NoKeyLine == InfoLine([Error |-> "unavailable"])

NonMatchingLines ==
    {HtmlLine, UpperIdentLine, Digit6Line, NoIdentLine, OtherAttrLine,
     LeadTextLine}
Before == {<<>>} \cup {<<l>> : l \in NonMatchingLines}
                 \cup {<<HtmlLine, Digit6Line>>}
After == {<<>>, <<HtmlLine>>, <<DecoyLine>>}

EquityOk(lines) == [transport |-> "ok", lines |-> lines]

\* What requests.get can hand Equity._info: a page whose only line is the
\* assignment, for every embedded JSON; for the short ones, pages with other
\* lines before and after it; pages with no matching line; pages whose first
\* matching line does not decode.
EquityResponses ==
    {[transport |-> "error"]}
    \cup {EquityOk(<<InfoLine(j)>>) : j \in EquityJsons(EntrySeqs)}
    \cup {EquityOk(b \o <<InfoLine(j)>> \o a) :
             b \in Before, a \in After,
             j \in EquityJsons(SeqsUpTo(ValidEntries, 1))}
    \cup {EquityOk(b \o a) : b \in Before, a \in {<<>>, <<HtmlLine>>}}
    \cup {EquityOk(b \o <<l>> \o a) :
             b \in Before, a \in After,
             l \in {MalformedLine, BraceAfterLine, NoKeyLine}}

Responses(class) ==
    IF class = "Avalon" THEN AvalonResponses ELSE EquityResponses

\* building.apartments for a registry entry: the generator's outcome.
Apartments(b, resp) ==
    IF b.class = "Avalon" THEN AvalonApartments(resp)
    ELSE EquityApartments(resp, EquityUrl(b))

\* ------------------------------------------------------------------- main
IsSet(opt) == opt # {}
Val(opt) == CHOOSE v \in opt : TRUE
Opt(S) == {{}} \cup {{v} : v \in S}

EmptyDict == [k \in {} |-> <<>>]

\* sorted(xs, key=lambda x: x.unit): a stable sort by unit.
RECURSIVE InsertByUnit(_, _)
InsertByUnit(s, a) ==
    IF s = <<>> THEN <<a>>
    ELSE IF s[Len(s)].unit <= a.unit THEN Append(s, a)
    ELSE Append(InsertByUnit(SubSeq(s, 1, Len(s) - 1), a), s[Len(s)])

\* A slip: the apartments are iterated in yield order.
NotSorted(s) == s

RECURSIVE SortedByUnit(_)
SortedByUnit(s) ==
    IF s = <<>> THEN <<>>
    ELSE InsertByUnit(SortedByUnit(SubSeq(s, 1, Len(s) - 1)), s[Len(s)])

\* sorted(by_size.keys()).
RECURSIVE SortedKeys(_)
SortedKeys(S) ==
    IF S = {} THEN <<>>
    ELSE LET m == CHOOSE x \in S : \A y \in S : x <= y
         IN  <<m>> \o SortedKeys(S \ {m})

RECURSIVE Sum(_)
Sum(s) == IF s = <<>> THEN 0 ELSE Head(s) + Sum(Tail(s))

\* A slip: the bounds are taken as exclusive.
FilteredOutInclusive(a, ar) ==
    \/ IsSet(ar.min_beds) /\ Val(ar.min_beds) >= a.beds
    \/ IsSet(ar.max_beds) /\ Val(ar.max_beds) <= a.beds

\* The two continue statements of the apartment loop (lines 170-173).
FilteredOut(a, ar) ==
    \/ IsSet(ar.min_beds) /\ Val(ar.min_beds) > a.beds
    \/ IsSet(ar.max_beds) /\ Val(ar.max_beds) < a.beds

\* by_size[size].append(rent) on a defaultdict(list).
DictAppend(d, size, rent) ==
    [k \in DOMAIN d \cup {size} |->
        IF k = size
        THEN (IF size \in DOMAIN d THEN Append(d[size], rent) ELSE <<rent>>)
        ELSE d[k]]

\* args.csv.writerow(dict(timestamp=..., bldg=..., **vars(apartment))).
CsvRow(ts, bldg, a) ==
    [kind |-> "row", timestamp |-> ts, bldg |-> bldg, unit |-> a.unit,
     rent |-> a.rent, size |-> a.size, beds |-> a.beds]

\* The apartment loop (lines 169-179) from state st = [out, by_size, err].
RECURSIVE ApartmentLoop(_, _, _, _, _)
ApartmentLoop(as, ar, ts, bldg, st) ==
    IF as = <<>> \/ st.err # "none" THEN st
    ELSE LET a == Head(as) IN
         IF FilteredOut(a, ar) THEN ApartmentLoop(Tail(as), ar, ts, bldg, st)
         ELSE IF ar.csv
         THEN ApartmentLoop(Tail(as), ar, ts, bldg,
                  [st EXCEPT !.out = Append(@, CsvRow(Val(ts), bldg, a))])
         ELSE IF ~PerSqFtDefined(a)
         THEN [st EXCEPT !.err = "ZeroDivisionError"]
         ELSE ApartmentLoop(Tail(as), ar, ts, bldg,
                  [st EXCEPT !.out = Append(@, ApartmentStr(a)),
                             !.by_size = DictAppend(@, a.size, a.rent)])

\* The summary loop (lines 182-185): sum / len / size for each size.
SizeLine(d, size) ==
    [kind |-> "size", size |-> size,
     value |-> [num |-> Sum(d[size]), den |-> Len(d[size]) * size]]

SummaryLines(d) ==
    LET keys == SortedKeys(DOMAIN d)
    IN  [k \in 1..Len(keys) |-> SizeLine(d, keys[k])] \o <<[kind |-> "blank"]>>

\* A slip: the header is printed in CSV mode too.
HeaderLinesAlways(ar, b) == <<[kind |-> "header", name |-> b.name]>>

\* Lines 164-168: what an iteration does before it reads building.apartments.
HeaderLines(ar, b) ==
    IF ar.csv THEN <<>> ELSE <<[kind |-> "header", name |-> b.name]>>

\* A slip: no names given selects nothing.
SelectedIfNamed(ar, b) == b.name \in ar.building

Selected(ar, b) == ~(ar.building # {} /\ b.name \notin ar.building)

ArgSpace ==
    [min_beds : Opt(Beds), max_beds : MaxBedsArgs, buildings : BOOLEAN,
     csv : BOOLEAN, building : NameSets]

Init ==
    /\ args \in ArgSpace
    /\ pc = "start"
    /\ exit = "running"
    /\ i = 1
    /\ clock = 0
    /\ timestamp = {}
    /\ by_size = EmptyDict
    /\ yielded = <<>>
    /\ apts = <<>>
    /\ out = <<>>
    /\ calls = 0
    /\ processed = <<>>
    /\ failed = {}
    /\ adapter = "none"
    /\ response = [transport |-> "none"]
    /\ result = NoneYet

\* _maybe_print_buildings(args).
MaybePrintBuildings ==
    /\ pc = "start"
    /\ IF args.buildings
       THEN /\ out' = <<[kind |-> "title"]>> \o
                      [k \in 1..Len(BUILDINGS) |->
                          [kind |-> "name", name |-> BUILDINGS[k].name]]
            /\ exit' = "ok"
            /\ pc' = "end"
       ELSE /\ pc' = "check"
            /\ UNCHANGED <<out, exit>>
    /\ UNCHANGED <<args, i, clock, timestamp, by_size, yielded, apts, calls,
                   processed, failed, adapter, response, result>>

\* A slip: the comparison is the wrong way round.
BedsInvertedFlipped(ar) ==
    /\ IsSet(ar.min_beds) /\ IsSet(ar.max_beds)
    /\ Val(ar.min_beds) < Val(ar.max_beds)

\* _check_beds(args): its condition; the message of sys.exit goes to stderr.
BedsInverted(ar) ==
    /\ IsSet(ar.min_beds) /\ IsSet(ar.max_beds)
    /\ Val(ar.min_beds) > Val(ar.max_beds)

\* _check_beds(args), called from main.
CheckBeds ==
    /\ pc = "check"
    /\ IF BedsInverted(args)
       THEN exit' = "error" /\ pc' = "end"
       ELSE exit' = exit /\ pc' = "loop"
    /\ UNCHANGED <<args, i, clock, timestamp, by_size, yielded, apts, out,
                   calls, processed, failed, adapter, response, result>>

\* Lines 162-163: a building that was not asked for.
SkipBuilding ==
    /\ pc = "loop" /\ i <= Len(BUILDINGS)
    /\ ~Selected(args, BUILDINGS[i])
    /\ i' = i + 1
    /\ UNCHANGED <<args, pc, exit, clock, timestamp, by_size, yielded, apts,
                   out, calls, processed, failed, adapter, response, result>>

\* A slip: by_size is made once, before the loop over the buildings.
BeginIterationOneDict ==
    LET b == BUILDINGS[i] IN
    /\ pc = "loop" /\ i <= Len(BUILDINGS)
    /\ Selected(args, b)
    /\ processed' = Append(processed, b.name)
    /\ out' = HeaderLines(args, b)
    /\ timestamp' = IF args.csv THEN {clock} ELSE timestamp
    /\ clock' = IF args.csv THEN clock + 1 ELSE clock
    /\ yielded' = <<>>
    /\ apts' = <<>>
    /\ pc' = "fetch"
    /\ UNCHANGED <<args, exit, i, calls, failed, adapter, response, result,
                   by_size>>

\* Lines 164-168: the header and a fresh by_size in text mode, the timestamp
\* in CSV mode.  The sorted list of the iteration before is garbage by now.
BeginIteration ==
    LET b == BUILDINGS[i] IN
    /\ pc = "loop" /\ i <= Len(BUILDINGS)
    /\ Selected(args, b)
    /\ processed' = Append(processed, b.name)
    /\ out' = HeaderLines(args, b)
    /\ by_size' = IF args.csv THEN by_size ELSE EmptyDict
    /\ timestamp' = IF args.csv THEN {clock} ELSE timestamp
    /\ clock' = IF args.csv THEN clock + 1 ELSE clock
    /\ yielded' = <<>>
    /\ apts' = <<>>
    /\ pc' = "fetch"
    /\ UNCHANGED <<args, exit, i, calls, failed, adapter, response, result>>

\* Line 169, sorted(building.apartments, key=...): the generator runs to its
\* end and its apartments are sorted, or it raises and nothing in main
\* catches the exception.  Avalon._url reads the time for its cache buster.
Fetch ==
    LET b == BUILDINGS[i] IN
    /\ pc = "fetch"
    /\ calls' = calls + 1
    /\ clock' = IF b.class = "Avalon" THEN clock + 1 ELSE clock
    /\ \E resp \in Responses(b.class) :
          LET r == Apartments(b, resp) IN
          /\ out' = out \o r.printed
          /\ IF r.err = "none"
             THEN /\ yielded' = r.apts
                  /\ apts' = SortedByUnit(r.apts)
                  /\ pc' = "emit"
                  /\ UNCHANGED <<exit, failed>>
             ELSE /\ failed' = failed \cup {b.name}
                  /\ exit' = "exception"
                  /\ pc' = "end"
                  /\ UNCHANGED <<yielded, apts>>
    /\ UNCHANGED <<args, i, timestamp, by_size, processed, adapter, response,
                   result>>

\* Lines 169-185: the apartment loop, then in text mode the summary.
EmitListings ==
    LET b == BUILDINGS[i]
        st == ApartmentLoop(apts, args, timestamp, b.name,
                  [out |-> out, by_size |-> by_size, err |-> "none"])
    IN
    /\ pc = "emit"
    /\ by_size' = st.by_size
    /\ IF st.err # "none"
       THEN /\ out' = st.out
            /\ exit' = "exception"
            /\ pc' = "end"
            /\ i' = i
       ELSE /\ out' = IF args.csv THEN st.out
                      ELSE st.out \o SummaryLines(st.by_size)
            /\ exit' = exit
            /\ pc' = "loop"
            /\ i' = i + 1
    /\ UNCHANGED <<args, clock, timestamp, yielded, apts, calls, processed,
                   failed, adapter, response, result>>

\* The for loop over BUILDINGS is exhausted and main returns.
Finish ==
    /\ pc = "loop" /\ i > Len(BUILDINGS)
    /\ exit' = "ok"
    /\ pc' = "end"
    /\ UNCHANGED <<args, i, clock, timestamp, by_size, yielded, apts, out,
                   calls, processed, failed, adapter, response, result>>

Next ==
    \/ MaybePrintBuildings
    \/ CheckBeds
    \/ SkipBuilding
    \/ BeginIteration
    \/ Fetch
    \/ EmitListings
    \/ Finish

Spec == Init /\ [][Next]_vars

\* ------------------------------------------------------------ adapter runs
\* One call of building.apartments on its own: the response is fixed first,
\* then the generator is run to its end.
InitAdapters ==
    /\ i \in 1..Len(BUILDINGS)
    /\ adapter = BUILDINGS[i].class
    /\ response \in Responses(adapter)
    /\ result = NoneYet
    /\ pc = "request"
    /\ args = [min_beds |-> {}, max_beds |-> {}, buildings |-> FALSE,
               csv |-> FALSE, building |-> {}]
    /\ exit = "running"
    /\ clock = 0
    /\ timestamp = {}
    /\ by_size = EmptyDict
    /\ yielded = <<>>
    /\ apts = <<>>
    /\ out = <<>>
    /\ calls = 0
    /\ processed = <<>>
    /\ failed = {}

RunAvalon ==
    /\ pc = "request" /\ adapter = "Avalon"
    /\ result' = Apartments(BUILDINGS[i], response)
    /\ clock' = clock + 1
    /\ calls' = calls + 1
    /\ pc' = "returned"
    /\ UNCHANGED <<args, exit, i, timestamp, by_size, yielded, apts, out,
                   processed, failed, adapter, response>>

RunEquity ==
    /\ pc = "request" /\ adapter = "Equity"
    /\ result' = Apartments(BUILDINGS[i], response)
    /\ calls' = calls + 1
    /\ pc' = "returned"
    /\ UNCHANGED <<args, exit, i, clock, timestamp, by_size, yielded, apts,
                   out, processed, failed, adapter, response>>

NextAdapters == RunAvalon \/ RunEquity

SpecAdapters == InitAdapters /\ [][NextAdapters]_vars

\* ================================================================= claims
\* What the claims speak of, stated apart from the operators above.
MinAboveMax(ar) ==
    \E lo \in ar.min_beds : \E hi \in ar.max_beds : lo > hi

InRange(a, ar) ==
    /\ \A lo \in ar.min_beds : a.beds >= lo
    /\ \A hi \in ar.max_beds : a.beds <= hi

IsListingLine(l) == l.kind \in {"unit", "row"}
ListingOf(l) ==
    [unit |-> l.unit, rent |-> l.rent, size |-> l.size, beds |-> l.beds]
Emitted(o) ==
    LET ls == SelectSeq(o, IsListingLine)
    IN  [k \in 1..Len(ls) |-> ListingOf(ls[k])]

Occurrences(s, x) == Cardinality({k \in DOMAIN s : s[k] = x})
Range(s) == {s[k] : k \in DOMAIN s}
NonDecreasingByUnit(s) ==
    \A k \in 1..(Len(s) - 1) : s[k].unit <= s[k + 1].unit

\* The loop has finished the iteration of the last building it entered.
IterationDone ==
    /\ processed # <<>>
    /\ pc = "loop" \/ (pc = "end" /\ exit = "ok")

RegistryNames == {BUILDINGS[k].name : k \in DOMAIN BUILDINGS}

\* The names of the first n registry entries that the name set asks for.
RECURSIVE Restricted(_, _)
Restricted(names, n) ==
    IF n = 0 THEN <<>>
    ELSE IF names = {} \/ BUILDINGS[n].name \in names
    THEN Append(Restricted(names, n - 1), BUILDINGS[n].name)
    ELSE Restricted(names, n - 1)

\* ---- C1
\* C1 as stated: whenever minBeds > maxBeds, main ends in a fatal error
\* (non-zero exit) with no transport call and no building processed.
C1_AsStated ==
    (MinAboveMax(args) /\ pc = "end") =>
        (exit = "error" /\ calls = 0 /\ processed = <<>>)

\* C1 amended: whenever minBeds > maxBeds, no transport call is ever issued
\* and no building is processed; main ends in a fatal error (non-zero exit)
\* unless the building list was asked for, and then it prints the list and
\* exits with status 0, the bounds unchecked.
C1_InvertedBedsNeverFetch ==
    MinAboveMax(args) =>
        /\ calls = 0 /\ processed = <<>>
        /\ pc \in {"start", "check", "end"}
        /\ pc = "end" => exit = (IF args.buildings THEN "ok" ELSE "error")

C1_Witness ==
    MinAboveMax(args) /\ ~args.buildings /\ pc = "end" /\ exit = "error"

\* ---- C2
\* C2: in text and in CSV mode every emitted Listing lies within the bed
\* bounds that are set, and once a building's iteration is done each fetched
\* Listing has been emitted exactly as often as it was fetched if it is in
\* range, and not at all if it is not.
C2_EmittedIffInRange ==
    /\ \A k \in DOMAIN out :
          IsListingLine(out[k]) => InRange(ListingOf(out[k]), args)
    /\ IterationDone =>
          \A a \in Range(apts) \cup Range(Emitted(out)) :
              Occurrences(Emitted(out), a) =
                  (IF InRange(a, args) THEN Occurrences(apts, a) ELSE 0)

C2_Witness ==
    /\ IterationDone
    /\ \E a \in Range(apts) : ~InRange(a, args)
    /\ \E a \in Range(apts) : InRange(a, args) /\ a \in Range(Emitted(out))

\* ---- C3
\* C3: whatever order the adapter yields in, the list main iterates is the
\* yielded Listings in non-decreasing unit order (Listings of one unit in
\* their yield order), and the Listings emitted for a building are that list
\* with the out-of-range ones removed, hence non-decreasing by unit too.
C3_SortedThenFiltered ==
    LET Kept(a) == InRange(a, args) IN
    /\ pc = "emit" \/ IterationDone =>
          /\ Len(apts) = Len(yielded)
          /\ NonDecreasingByUnit(apts)
          /\ \A u \in Units :
                LET HasUnit(a) == a.unit = u
                IN  SelectSeq(apts, HasUnit) = SelectSeq(yielded, HasUnit)
    /\ IterationDone =>
          /\ Emitted(out) = SelectSeq(apts, Kept)
          /\ NonDecreasingByUnit(Emitted(out))

C3_Witness ==
    /\ IterationDone
    /\ Len(yielded) >= 2
    /\ yielded[1].unit > yielded[2].unit
    /\ Len(Emitted(out)) >= 2

\* ---- C4
\* C4 as stated: a building whose fetch fails does not abort the run.
C4_FetchFailureDoesNotAbort ==
    failed # {} => exit # "exception"

SizeLinesOf(o) == LET IsSize(l) == l.kind = "size" IN SelectSeq(o, IsSize)
RentsOfSize(ls, size) ==
    LET OfSize(a) == a.size = size
        sel == SelectSeq(ls, OfSize)
    IN  [k \in 1..Len(sel) |-> sel[k].rent]

\* C7: in text mode, once a building's iteration is done, the summary lines
\* after its Listing lines are one line per distinct size among those
\* Listings, in strictly ascending size order, each with the value
\* sum(rents of that size) / count / size; nothing of an earlier building
\* enters them.
C7_SummaryOfOwnListings ==
    (IterationDone /\ ~args.csv) =>
        LET ls == Emitted(out)
            sl == SizeLinesOf(out)
        IN  /\ {sl[k].size : k \in DOMAIN sl} = {a.size : a \in Range(ls)}
            /\ \A k \in 1..(Len(sl) - 1) : sl[k].size < sl[k + 1].size
            /\ \A k \in DOMAIN sl :
                  LET rs == RentsOfSize(ls, sl[k].size)
                  IN  /\ sl[k].value.num = Sum(rs)
                      /\ sl[k].value.den = Len(rs) * sl[k].size
            /\ out[Len(out)].kind = "blank"
            /\ \A k \in 1..(Len(out) - 1) :
                  out[k].kind = "size" =>
                      out[k + 1].kind \in {"size", "blank"}

C7_Witness ==
    /\ IterationDone /\ ~args.csv
    /\ Len(processed) >= 2
    /\ Len(SizeLinesOf(out)) = 2
    /\ Len(Emitted(out)) >= 2
    /\ Emitted(out)[1].size > Emitted(out)[2].size

\* ---- C8
\* C8: in CSV mode no header line, Listing text line, size line or blank
\* line is ever written, and once a building's iteration is done the rows
\* written for it number the Listings of that building within the bed
\* bounds, one row for each.
C8_CsvRowsOnly ==
    args.csv =>
        /\ \A k \in DOMAIN out :
              out[k].kind \notin {"header", "unit", "size", "blank"}
        /\ IterationDone =>
              LET Kept(a) == InRange(a, args)
                  IsRow(l) == l.kind = "row"
                  rows == SelectSeq(out, IsRow)
              IN  /\ Len(rows) = Len(SelectSeq(apts, Kept))
                  /\ rows = out
                  /\ \A k \in DOMAIN rows :
                        rows[k].bldg = processed[Len(processed)]

C8_Witness ==
    /\ args.csv /\ IterationDone
    /\ Len(out) >= 1
    /\ Len(out) < Len(apts)

\* ---- C10
\* C10 as stated: no adapter ever yields a Listing of size 0.
C10_NoZeroSize ==
    \A k \in DOMAIN yielded : yielded[k].size > 0

\* ---- C5
\* The entries of a response that carry every field a Listing needs.
AvalonComplete(t, fp, a) ==
    /\ t.floorPlanTypeCode # <<>>
    /\ t.floorPlanTypeCode[1] \in DOMAIN DigitValue
    /\ "estimatedSize" \in DOMAIN fp
    /\ "apartmentNumber" \in DOMAIN a
    /\ "pricing" \in DOMAIN a /\ "effectiveRent" \in DOMAIN a.pricing

AvalonCompleteEntries(info) ==
    LET ts == info.results.availableFloorPlanTypes IN
    Sum([t \in 1..Len(ts) |->
        LET fps == ts[t].availableFloorPlans IN
        Sum([f \in 1..Len(fps) |->
            LET ps == fps[f].finishPackages IN
            Sum([p \in 1..Len(ps) |->
                Cardinality({a \in DOMAIN ps[p].apartments :
                    AvalonComplete(ts[t], fps[f], ps[p].apartments[a])})])])])

EquityComplete(bt, u) ==
    /\ "BedroomCount" \in DOMAIN bt
    /\ "UnitId" \in DOMAIN u /\ "SqFt" \in DOMAIN u
    /\ "BestTerm" \in DOMAIN u /\ "Price" \in DOMAIN u.BestTerm

EquityCompleteEntries(info) ==
    LET bts == info.BedroomTypes IN
    Sum([t \in 1..Len(bts) |->
        Cardinality({u \in DOMAIN bts[t].AvailableUnits :
            EquityComplete(bts[t], bts[t].AvailableUnits[u])})])

\* The response as a whole has the expected shape.
AvalonShapeOk(resp) ==
    /\ resp.transport = "ok" /\ resp.body.isJson
    /\ "results" \in DOMAIN resp.body.value

EquityShapeOk(resp) ==
    /\ resp.transport = "ok"
    /\ Len(resp.lines) = 1
    /\ InfoPatternMatches(resp.lines[1]) /\ JsonLoads(resp.lines[1])
    /\ "BedroomTypes" \in DOMAIN resp.lines[1].fragment.value

\* C5 as stated: on a response of the expected shape the adapter does not
\* fail and yields one Listing for each entry that has every required field.
C5_MalformedEntriesSkipped ==
    /\ (pc = "returned" /\ adapter = "Avalon" /\ AvalonShapeOk(response)) =>
          /\ result.err = "none"
          /\ Len(result.apts) = AvalonCompleteEntries(response.body.value)
    /\ (pc = "returned" /\ adapter = "Equity" /\ EquityShapeOk(response)) =>
          /\ result.err = "none"
          /\ Len(result.apts) =
                EquityCompleteEntries(response.lines[1].fragment.value)

\* ---- C9
\* C9: Equity decodes the fragment of the first line of the page that matches
\* the pattern, whatever later lines hold: its Listings are those of that
\* fragment, and it fails without a Listing when that fragment does not
\* decode.  When no line matches it prints the URL it could not get info from,
\* fails, and yields no Listing.
C9_FirstMatchingLineDecoded ==
    (pc = "returned" /\ adapter = "Equity" /\ response.transport = "ok") =>
        LET lines == response.lines
            matching == {k \in DOMAIN lines : InfoPatternMatches(lines[k])}
        IN  IF matching = {}
            THEN /\ result.err # "none"
                 /\ result.apts = <<>>
                 /\ result.printed =
                       <<[kind |-> "unable", url |-> EquityUrl(BUILDINGS[i])]>>
            ELSE LET k == CHOOSE m \in matching : \A j \in matching : m <= j
                     l == lines[k]
                 IN  /\ result.printed = <<>>
                     /\ IF l.fragment.wellFormed /\ ~l.braceAfter
                           /\ "BedroomTypes" \in DOMAIN l.fragment.value
                        THEN result =
                               EquityTypesLoop(l.fragment.value.BedroomTypes,
                                               NoneYet)
                        ELSE result.err # "none" /\ result.apts = <<>>

C9_Witness ==
    /\ pc = "returned" /\ adapter = "Equity" /\ response.transport = "ok"
    /\ Cardinality({k \in DOMAIN response.lines :
                       InfoPatternMatches(response.lines[k])}) = 2
    /\ ~InfoPatternMatches(response.lines[1])
    /\ result.err = "none"
    /\ result.apts = <<Apartment(1, 2, 1, 1)>>

====
